---- MODULE Spec2Model ----
(***************************************************************************)
(* The medallion ETL pipeline of main.py: extract_data -> load_bronze ->   *)
(* transform_silver -> load_silver -> four aggregators -> load_gold.       *)
(*                                                                         *)
(* Conventions of the model                                                *)
(*   - an Optional value is None (<<>>) or Some(x) (<<x>>); NaN/None/NaT   *)
(*     of a cell and the None a function returns are both None;            *)
(*   - a string is a tuple of one-character strings, so that strip and     *)
(*     upper are computed character by character; the cells of the string  *)
(*     columns are Optional strings; Quantity and UnitPrice cells are      *)
(*     numbers (a NaN there is not among the inputs);                      *)
(*   - money is counted in cents (UnitPrice 0.01 is 1);                    *)
(*   - a raw CustomerID is a float counted in halves (17850.0 is 35700),   *)
(*     so that astype(int) truncates;                                      *)
(*   - a timestamp is <<year, month, day, hour>>, an unparsable date       *)
(*     string is Bad;                                                      *)
(*   - a DataFrame is [columns |-> set of names, rows |-> sequence of      *)
(*     rows], a row being a function from the columns to the cells.        *)
(***************************************************************************)
EXTENDS Integers, Sequences, FiniteSets, TLC

VARIABLES
    pc,           \* the call main() makes next
    source,       \* the sheet behind Config.DATASET_URL
    faults,       \* the calls in which the environment raises an exception
    top_n,        \* the top_n handed to aggregate_top_products
    df_raw,       \* main's df_raw
    df_clean,     \* main's df_clean
    gold_tables,  \* the entries of main's gold_tables evaluated so far
    row_counts,   \* len(df_clean) after each step of transform_silver
    calls,        \* the pipeline functions called so far, in order
    store,        \* the parquet files written
    result        \* what main() returned

vars == <<pc, source, faults, top_n, df_raw, df_clean, gold_tables,
          row_counts, calls, store, result>>

-----------------------------------------------------------------------------
(* Optional values *)

None == <<>>
Some(x) == <<x>>
The(o) == o[1]

-----------------------------------------------------------------------------
(* Config *)

MIN_QUANTITY == 0
MIN_UNIT_PRICE == 1
MAX_UNIT_PRICE == 1000000
DEFAULT_TOP_N == 50

RequiredColumns ==
    {"InvoiceNo", "StockCode", "Description", "Quantity", "InvoiceDate",
     "UnitPrice", "CustomerID", "Country"}

-----------------------------------------------------------------------------
(* Sequences *)

\* The elements of s at the indices in keep, in s's order (boolean indexing).
RECURSIVE TakeIdx(_, _, _)
TakeIdx(s, keep, i) ==
    IF i > Len(s) THEN <<>>
    ELSE (IF i \in keep THEN <<s[i]>> ELSE <<>>) \o TakeIdx(s, keep, i + 1)

Mask(s, keep) == TakeIdx(s, keep, 1)

\* The cells of column c, row by row.
Column(rows, c) == [i \in 1..Len(rows) |-> rows[i][c]]

RECURSIVE SumSeq(_)
SumSeq(s) == IF s = <<>> THEN 0 ELSE s[1] + SumSeq(Tail(s))

-----------------------------------------------------------------------------
(* Strings: str.strip, str.upper *)

IsSpace(c) == c = " "

RECURSIVE LStrip(_)
LStrip(s) == IF s # <<>> /\ IsSpace(s[1]) THEN LStrip(Tail(s)) ELSE s

RECURSIVE RStrip(_)
RStrip(s) ==
    IF s # <<>> /\ IsSpace(s[Len(s)]) THEN RStrip(SubSeq(s, 1, Len(s) - 1)) ELSE s

Strip(s) == RStrip(LStrip(s))

UpperChar(c) ==
    CASE c = "x" -> "X"
      [] c = "y" -> "Y"
      [] OTHER -> c

Upper(s) == [i \in 1..Len(s) |-> UpperChar(s[i])]

\* Series.str.strip() and Series.str.upper() leave a NaN cell NaN.
StrStrip(o) == IF o = None THEN None ELSE Some(Strip(The(o)))
StrUpper(o) == IF o = None THEN None ELSE Some(Upper(The(o)))

\* Series.astype(str) writes a NaN cell as the string 'nan'.
AsTypeStr(o) == IF o = None THEN Some(<<"n", "a", "n">>) ELSE o

CharCode(c) ==
    CASE c = " " -> 32 [] c = "1" -> 49 [] c = "2" -> 50 [] c = "3" -> 51
      [] c = "A" -> 65 [] c = "B" -> 66 [] c = "C" -> 67 [] c = "F" -> 70
      [] c = "U" -> 85 [] c = "X" -> 88 [] c = "Y" -> 89
      [] c = "a" -> 97 [] c = "n" -> 110 [] c = "x" -> 120 [] c = "y" -> 121

\* a < b for two strings (the order groupby sorts its keys in).
RECURSIVE StrLess(_, _)
StrLess(a, b) ==
    IF b = <<>> THEN FALSE
    ELSE IF a = <<>> THEN TRUE
    ELSE IF a[1] # b[1] THEN CharCode(a[1]) < CharCode(b[1])
    ELSE StrLess(Tail(a), Tail(b))

-----------------------------------------------------------------------------
(* Timestamps: pd.to_datetime and the .dt accessors *)

NaT == <<>>
Bad == <<"bad">>

\* Days since 1970-01-01 of a civil date.
DaysFromCivil(y, m, d) ==
    LET yy  == IF m <= 2 THEN y - 1 ELSE y
        era == yy \div 400
        yoe == yy - era * 400
        mp  == (m + 9) % 12
        doy == (153 * mp + 2) \div 5 + d - 1
        doe == yoe * 365 + yoe \div 4 - yoe \div 100 + doy
    IN  era * 146097 + doe - 719468

DtYear(t) == IF t = NaT THEN None ELSE Some(t[1])
DtMonth(t) == IF t = NaT THEN None ELSE Some(t[2])
DtHour(t) == IF t = NaT THEN None ELSE Some(t[4])
\* Monday = 0 ... Sunday = 6; 1970-01-01 was a Thursday.
DtDayOfWeek(t) ==
    IF t = NaT THEN None ELSE Some((DaysFromCivil(t[1], t[2], t[3]) + 3) % 7)

-----------------------------------------------------------------------------
(* validate_data_quality *)

IsDuplicated(rows, i) == \E j \in 1..(i - 1) : rows[j] = rows[i]

\* None stands for the KeyError of a column the function indexes.
validate_data_quality(df) ==
    IF ~({"InvoiceNo", "CustomerID", "Quantity", "UnitPrice", "InvoiceDate"}
            \subseteq df.columns)
    THEN None
    ELSE Some([
        total_rows        |-> Len(df.rows),
        duplicates        |-> Cardinality({i \in 1..Len(df.rows) : IsDuplicated(df.rows, i)}),
        missing_invoice   |-> Cardinality({i \in 1..Len(df.rows) : df.rows[i].InvoiceNo = None}),
        missing_customer  |-> Cardinality({i \in 1..Len(df.rows) : df.rows[i].CustomerID = None}),
        negative_quantity |-> Cardinality({i \in 1..Len(df.rows) : df.rows[i].Quantity < 0}),
        zero_price        |-> Cardinality({i \in 1..Len(df.rows) : df.rows[i].UnitPrice = 0}),
        invalid_dates     |-> Cardinality({i \in 1..Len(df.rows) : df.rows[i].InvoiceDate = NaT})])

-----------------------------------------------------------------------------
(* transform_silver, step by step *)

\* Mutant of drop_duplicates: the duplicated rows are appended, not removed.
drop_duplicates_Appending(rows) ==
    rows \o Mask(rows, {i \in 1..Len(rows) : IsDuplicated(rows, i)})

\* Mutant of drop_duplicates: keep=False, every copy of a repeated row dropped.
drop_duplicates_KeepNone(rows) ==
    Mask(rows, {i \in 1..Len(rows) : \A j \in 1..Len(rows) : rows[j] = rows[i] => j = i})

drop_duplicates(rows) ==
    Mask(rows, {i \in 1..Len(rows) : ~IsDuplicated(rows, i)})

FilterCustomer(rows) ==
    Mask(rows, {i \in 1..Len(rows) : rows[i].CustomerID # None})

\* Mutant of ValidRow: the quantity compared with >= instead of >.
ValidRow_QuantityInclusive(r) ==
    /\ r.Quantity >= MIN_QUANTITY
    /\ r.UnitPrice >= MIN_UNIT_PRICE
    /\ r.UnitPrice <= MAX_UNIT_PRICE

\* Mutant of ValidRow: the upper price bound compared with < instead of <=.
ValidRow_PriceExclusive(r) ==
    /\ r.Quantity > MIN_QUANTITY
    /\ r.UnitPrice >= MIN_UNIT_PRICE
    /\ r.UnitPrice < MAX_UNIT_PRICE

ValidRow(r) ==
    /\ r.Quantity > MIN_QUANTITY
    /\ r.UnitPrice >= MIN_UNIT_PRICE
    /\ r.UnitPrice <= MAX_UNIT_PRICE

FilterValid(rows) == Mask(rows, {i \in 1..Len(rows) : ValidRow(rows[i])})

TotalPriceOf(r) == r.Quantity * r.UnitPrice

\* Steps 1-4; the counts are len(df_clean) at lines 212, 219, 223 and 231.
CleanRows(df) ==
    LET d1 == drop_duplicates(df.rows)
        d2 == FilterCustomer(d1)
        d3 == FilterValid(d2)
    IN  [rows |-> d3, counts |-> <<Len(df.rows), Len(d1), Len(d2), Len(d3)>>]

\* Step 5: the derived columns of one row.
Derive(r) ==
    r @@ [TotalPrice |-> TotalPriceOf(r),
          Year       |-> DtYear(r.InvoiceDate),
          Month      |-> DtMonth(r.InvoiceDate),
          DayOfWeek  |-> DtDayOfWeek(r.InvoiceDate),
          Hour       |-> DtHour(r.InvoiceDate)]

\* Series.astype(int) of a float cell counted in halves: truncation.
AsTypeInt(o) == Some(The(o) \div 2)

\* Mutant of Normalize: the integer coercion also hits UnitPrice (whole
\* currency units, the cents cut off).
Normalize_PriceCoerced(r) ==
    [r EXCEPT !.Description = StrUpper(StrStrip(@)),
              !.Country     = StrStrip(@),
              !.InvoiceNo   = StrStrip(AsTypeStr(@)),
              !.StockCode   = StrStrip(AsTypeStr(@)),
              !.CustomerID  = AsTypeInt(@),
              !.UnitPrice   = (@ \div 100) * 100]

\* Step 6: the normalized cells of one row.
Normalize(r) ==
    [r EXCEPT !.Description = StrUpper(StrStrip(@)),
              !.Country     = StrStrip(@),
              !.InvoiceNo   = StrStrip(AsTypeStr(@)),
              !.StockCode   = StrStrip(AsTypeStr(@)),
              !.CustomerID  = AsTypeInt(@)]

DerivedColumns == {"TotalPrice", "Year", "Month", "DayOfWeek", "Hour"}

\* Mutant of transform_silver: the normalization steps guarded by
\* "if column in df.columns", as load_bronze guards its conversions.
transform_silver_GuardedNormalize(df) ==
    IF validate_data_quality(df) = None THEN None
    ELSE LET kept == CleanRows(df).rows IN
         IF \E i \in 1..Len(kept) : kept[i].InvoiceDate = Bad THEN None
         ELSE IF Len(df.rows) = 0 THEN None
         ELSE Some([columns |-> df.columns \cup DerivedColumns,
                    rows    |-> [i \in 1..Len(kept) |->
                        LET d == Derive(kept[i]) IN
                        [c \in DOMAIN d |->
                            CASE c = "Description" -> StrUpper(StrStrip(d[c]))
                              [] c = "Country"     -> StrStrip(d[c])
                              [] c \in {"InvoiceNo", "StockCode"} -> StrStrip(AsTypeStr(d[c]))
                              [] c = "CustomerID"  -> AsTypeInt(d[c])
                              [] OTHER -> d[c]]]])

\* None stands for the except branch (lines 258-260), reached from
\*   - the KeyError of a column validate_data_quality indexes (line 215),
\*   - pd.to_datetime on a date string it cannot parse (line 235),
\*   - the KeyError of Description, Country or StockCode (lines 242-245),
\*   - astype(int) on a NaN CustomerID (line 246),
\*   - the division by initial_rows = 0 in the summary (line 253).
transform_silver(df) ==
    IF validate_data_quality(df) = None THEN None
    ELSE LET kept == CleanRows(df).rows IN
         IF \E i \in 1..Len(kept) : kept[i].InvoiceDate = Bad THEN None
         ELSE IF ~({"Description", "Country", "StockCode"} \subseteq df.columns)
              THEN None
         ELSE IF \E i \in 1..Len(kept) : kept[i].CustomerID = None THEN None
         ELSE IF Len(df.rows) = 0 THEN None
         ELSE Some([columns |-> df.columns \cup DerivedColumns,
                    rows    |-> [i \in 1..Len(kept) |-> Normalize(Derive(kept[i]))]])

silver_row_counts(df) ==
    IF validate_data_quality(df) = None THEN <<Len(df.rows)>>
    ELSE CleanRows(df).counts

-----------------------------------------------------------------------------
(* groupby / agg / sort_values / head *)

\* The group keys: the distinct non-null cells of the key column; a row whose
\* key is None (NaN) belongs to no group (groupby's dropna=True).
GroupKeys(keys) == {The(keys[i]) : i \in {j \in 1..Len(keys) : keys[j] # None}}

\* The rows of the group k.
GroupRows(rows, keys, k) == Mask(rows, {i \in 1..Len(rows) : keys[i] = Some(k)})

\* nunique: the distinct non-null cells.
NUnique(cells) == Cardinality({cells[i] : i \in 1..Len(cells)} \ {None})

\* A quotient of two numbers (a float in the code), kept exact.
Ratio(n, d) == [num |-> n, den |-> d]

\* sort_values('TotalRevenue', ascending=False): the first row of the
\* greatest revenue first.
RECURSIVE SortByRevenueDesc(_)
SortByRevenueDesc(t) ==
    IF t = <<>> THEN <<>>
    ELSE LET i == CHOOSE i \in 1..Len(t) :
                    /\ \A j \in 1..Len(t) : t[j].TotalRevenue <= t[i].TotalRevenue
                    /\ \A j \in 1..(i - 1) : t[j].TotalRevenue < t[i].TotalRevenue
         IN  <<t[i]>> \o SortByRevenueDesc(Mask(t, (1..Len(t)) \ {i}))

DfHead(t, n) == SubSeq(t, 1, IF n < Len(t) THEN n ELSE Len(t))

-----------------------------------------------------------------------------
(* aggregate_sales_by_country *)

\* The keys of groupby('Country') in ascending order.
CountryKeys(rows) ==
    LET S == GroupKeys(Column(rows, "Country"))
    IN  [i \in 1..Cardinality(S) |->
            CHOOSE k \in S : Cardinality({y \in S : StrLess(y, k)}) = i - 1]

\* Mutant of CountryRow: TotalOrders aggregated with 'count' (the rows of
\* the group) instead of 'nunique'.
CountryRow_OrdersCounted(rows, k) ==
    LET g == GroupRows(rows, Column(rows, "Country"), k)
        orders == Len(g)
        revenue == SumSeq(Column(g, "TotalPrice"))
    IN  [Country         |-> k,
         TotalOrders     |-> orders,
         UniqueCustomers |-> NUnique(Column(g, "CustomerID")),
         TotalQuantity   |-> SumSeq(Column(g, "Quantity")),
         TotalRevenue    |-> revenue,
         AvgOrderValue   |-> Ratio(revenue, orders)]

CountryRow(rows, k) ==
    LET g == GroupRows(rows, Column(rows, "Country"), k)
        orders == NUnique(Column(g, "InvoiceNo"))
        revenue == SumSeq(Column(g, "TotalPrice"))
    IN  [Country         |-> k,
         TotalOrders     |-> orders,
         UniqueCustomers |-> NUnique(Column(g, "CustomerID")),
         TotalQuantity   |-> SumSeq(Column(g, "Quantity")),
         TotalRevenue    |-> revenue,
         AvgOrderValue   |-> Ratio(revenue, orders)]

aggregate_sales_by_country(df) ==
    LET keys == CountryKeys(df.rows)
    IN  SortByRevenueDesc([i \in 1..Len(keys) |-> CountryRow(df.rows, keys[i])])

-----------------------------------------------------------------------------
(* aggregate_sales_by_time *)

\* dt.to_period('M').astype(str): "2011-01" is <<2011, 1>>, and the period
\* of a NaT is the string 'NaT'.
YearMonthOf(t) == IF t = NaT THEN Some(<<"NaT">>) ELSE Some(<<t[1], t[2]>>)

\* The order of the period strings: digits sort before 'N'.
PeriodLess(a, b) ==
    IF Len(a) = 1 THEN FALSE
    ELSE IF Len(b) = 1 THEN TRUE
    ELSE a[1] < b[1] \/ (a[1] = b[1] /\ a[2] < b[2])

\* Mutant of WithYearMonth: the assignment also drops, in place, the rows
\* that have no period.
WithYearMonth_DroppingNaT(df) ==
    LET kept == Mask(df.rows, {i \in 1..Len(df.rows) : df.rows[i].InvoiceDate # NaT})
    IN  [columns |-> df.columns \cup {"YearMonth"},
         rows    |-> [i \in 1..Len(kept) |->
                        [c \in DOMAIN kept[i] \cup {"YearMonth"} |->
                            IF c = "YearMonth" THEN YearMonthOf(kept[i].InvoiceDate)
                            ELSE kept[i][c]]]]

\* Line 344 writes the period into the frame it was handed.
WithYearMonth(df) ==
    [columns |-> df.columns \cup {"YearMonth"},
     rows    |-> [i \in 1..Len(df.rows) |->
                    [c \in DOMAIN df.rows[i] \cup {"YearMonth"} |->
                        IF c = "YearMonth" THEN YearMonthOf(df.rows[i].InvoiceDate)
                        ELSE df.rows[i][c]]]]

\* The keys of groupby('YearMonth') in ascending order.
PeriodKeys(rows) ==
    LET S == GroupKeys(Column(rows, "YearMonth"))
    IN  [i \in 1..Cardinality(S) |->
            CHOOSE k \in S : Cardinality({y \in S : PeriodLess(y, k)}) = i - 1]

TimeRow(rows, k) ==
    LET g == GroupRows(rows, Column(rows, "YearMonth"), k)
        revenue == SumSeq(Column(g, "TotalPrice"))
    IN  [YearMonth       |-> k,
         TotalOrders     |-> NUnique(Column(g, "InvoiceNo")),
         UniqueCustomers |-> NUnique(Column(g, "CustomerID")),
         TotalRevenue    |-> revenue,
         AvgOrderValue   |-> Ratio(revenue, Len(g)),
         TotalQuantity   |-> SumSeq(Column(g, "Quantity"))]

\* Lines 346-359: the groupby on a frame that has the YearMonth column.
sales_by_time_groupby(df) ==
    LET keys == PeriodKeys(df.rows)
    IN  [i \in 1..Len(keys) |-> TimeRow(df.rows, keys[i])]

aggregate_sales_by_time(df) == sales_by_time_groupby(WithYearMonth(df))

-----------------------------------------------------------------------------
(* aggregate_top_products *)

\* The composite key (StockCode, Description); NaN in either part drops the row.
ProductKey(r) ==
    IF r.StockCode = None \/ r.Description = None THEN None
    ELSE Some(<<The(r.StockCode), The(r.Description)>>)

ProductKeyColumn(rows) == [i \in 1..Len(rows) |-> ProductKey(rows[i])]

ProductLess(a, b) == StrLess(a[1], b[1]) \/ (a[1] = b[1] /\ StrLess(a[2], b[2]))

\* The keys of groupby(['StockCode', 'Description']) in ascending order.
ProductKeys(rows) ==
    LET S == GroupKeys(ProductKeyColumn(rows))
    IN  [i \in 1..Cardinality(S) |->
            CHOOSE k \in S : Cardinality({y \in S : ProductLess(y, k)}) = i - 1]

ProductRow(rows, k) ==
    LET g == GroupRows(rows, ProductKeyColumn(rows), k)
        sold == SumSeq(Column(g, "Quantity"))
        revenue == SumSeq(Column(g, "TotalPrice"))
        orders == NUnique(Column(g, "InvoiceNo"))
    IN  [StockCode           |-> k[1],
         Description         |-> k[2],
         TotalQuantitySold   |-> sold,
         TotalRevenue        |-> revenue,
         TotalOrders         |-> orders,
         UniqueCustomers     |-> NUnique(Column(g, "CustomerID")),
         AvgPricePerUnit     |-> Ratio(revenue, sold),
         AvgQuantityPerOrder |-> Ratio(sold, orders)]

ProductGroups(df) ==
    LET keys == ProductKeys(df.rows)
    IN  [i \in 1..Len(keys) |-> ProductRow(df.rows, keys[i])]

aggregate_top_products(df, n) == DfHead(SortByRevenueDesc(ProductGroups(df)), n)

-----------------------------------------------------------------------------
(* aggregate_customer_segments *)

\* Hours since the epoch, to order two timestamps and subtract them.
HoursOf(t) == DaysFromCivil(t[1], t[2], t[3]) * 24 + t[4]

\* min / max of a datetime column skip NaT, and are NaT when nothing is left.
MinDate(g) ==
    LET ts == {g[i].InvoiceDate : i \in 1..Len(g)} \ {NaT}
    IN  IF ts = {} THEN NaT
        ELSE CHOOSE t \in ts : \A u \in ts : HoursOf(t) <= HoursOf(u)

MaxDate(g) ==
    LET ts == {g[i].InvoiceDate : i \in 1..Len(g)} \ {NaT}
    IN  IF ts = {} THEN NaT
        ELSE CHOOSE t \in ts : \A u \in ts : HoursOf(u) <= HoursOf(t)

\* (LastPurchase - FirstPurchase).dt.days
LifetimeDays(first, last) ==
    IF first = NaT \/ last = NaT THEN None
    ELSE Some((HoursOf(last) - HoursOf(first)) \div 24)

\* Mutant of Cut: the bins closed on the left (right=False).
Cut_LeftClosed(x) ==
    IF x >= 0 /\ x < 100000 THEN Some("Low Value")
    ELSE IF x >= 100000 /\ x < 500000 THEN Some("Medium Value")
    ELSE IF x >= 500000 THEN Some("High Value")
    ELSE None

\* pd.cut(x, bins=[0, 1000, 5000, inf]): right-closed bins, the lowest edge
\* not included; a value in no bin gets NaN.
Cut(x) ==
    IF x > 0 /\ x <= 100000 THEN Some("Low Value")
    ELSE IF x > 100000 /\ x <= 500000 THEN Some("Medium Value")
    ELSE IF x > 500000 THEN Some("High Value")
    ELSE None

\* The keys of groupby('CustomerID') in ascending order.
CustomerKeys(rows) ==
    LET S == GroupKeys(Column(rows, "CustomerID"))
    IN  [i \in 1..Cardinality(S) |->
            CHOOSE k \in S : Cardinality({y \in S : y < k}) = i - 1]

CustomerRow(rows, k) ==
    LET g == GroupRows(rows, Column(rows, "CustomerID"), k)
        orders == NUnique(Column(g, "InvoiceNo"))
        spent == SumSeq(Column(g, "TotalPrice"))
        first == MinDate(g)
        last == MaxDate(g)
    IN  [CustomerID       |-> k,
         TotalOrders      |-> orders,
         TotalSpent       |-> spent,
         TotalItems       |-> SumSeq(Column(g, "Quantity")),
         FirstPurchase    |-> first,
         LastPurchase     |-> last,
         AvgOrderValue    |-> Ratio(spent, orders),
         CustomerLifetime |-> LifetimeDays(first, last),
         Segment          |-> Cut(spent)]

aggregate_customer_segments(df) ==
    LET keys == CustomerKeys(df.rows)
    IN  [i \in 1..Len(keys) |-> CustomerRow(df.rows, keys[i])]

-----------------------------------------------------------------------------
(* The runs explored *)

MaxRows == 3
MaxTopN == 2

\* The calls whose try block the environment can make raise: the download,
\* the three parquet writers, and any of the aggregators.
FaultPoints ==
    {"extract_data", "load_bronze", "load_silver", "aggregate_sales_by_country",
     "aggregate_sales_by_time", "aggregate_top_products",
     "aggregate_customer_segments", "load_gold"}

T1 == <<2010, 12, 1, 8>>
T2 == <<2011, 1, 10, 10>>

\* Invoice 1: one unit of product A ("x") at 1000.00, customer 1.0, country U.
BaseRow ==
    [InvoiceNo   |-> Some(<<"1">>),
     StockCode   |-> Some(<<"A">>),
     Description |-> Some(<<"x">>),
     Quantity    |-> 1,
     InvoiceDate |-> T1,
     UnitPrice   |-> 100000,
     CustomerID  |-> Some(2),
     Country     |-> Some(<<"U">>)]

\* Rows on either side of every predicate of the Cleaner.
CleaningRows ==
    {BaseRow}
    \cup {[BaseRow EXCEPT !.Quantity = 0]}
    \cup {[BaseRow EXCEPT !.UnitPrice = p] : p \in {0, 1, 1000000, 1000001}}
    \cup {[BaseRow EXCEPT !.CustomerID = None]}
    \cup {[BaseRow EXCEPT !.InvoiceDate = t] : t \in {NaT, Bad}}
    \cup {[BaseRow EXCEPT !.Description = Some(<<" ", "x">>)]}

\* Rows the Cleaner keeps, differing in the grouping keys and the amounts.
SalesRows ==
    {BaseRow,
     [BaseRow EXCEPT !.StockCode = Some(<<"B">>)],
     [BaseRow EXCEPT !.StockCode = Some(<<"B">>), !.Quantity = 5],
     [BaseRow EXCEPT !.Description = None],
     [BaseRow EXCEPT !.Description = Some(<<"y">>), !.UnitPrice = 1],
     [BaseRow EXCEPT !.CustomerID = Some(4), !.InvoiceDate = T2],
     [BaseRow EXCEPT !.CustomerID = Some(3)],
     [BaseRow EXCEPT !.Country = Some(<<"F">>), !.InvoiceNo = Some(<<"2">>)],
     [BaseRow EXCEPT !.InvoiceDate = T2]}

\* Rows of three products, one of them without a Description.
ProductRows ==
    {BaseRow,
     [BaseRow EXCEPT !.StockCode = Some(<<"B">>)],
     [BaseRow EXCEPT !.StockCode = Some(<<"B">>), !.Quantity = 5],
     [BaseRow EXCEPT !.Description = None],
     [BaseRow EXCEPT !.Description = Some(<<"y">>), !.UnitPrice = 1]}

SeqsUpTo(S, n) == UNION {[1..k -> S] : k \in 0..n}

Frame(rows) == [columns |-> RequiredColumns, rows |-> rows]

\* The frame with only the columns cols.
Project(df, cols) ==
    [columns |-> cols,
     rows    |-> [i \in 1..Len(df.rows) |-> [c \in cols |-> df.rows[i][c]]]]

FaultSheets ==
    {Frame(<<>>), Frame(<<BaseRow>>),
     Frame(<<BaseRow, [BaseRow EXCEPT !.StockCode = Some(<<"B">>), !.Quantity = 5]>>),
     Frame(<<[BaseRow EXCEPT !.Description = None], [BaseRow EXCEPT !.InvoiceDate = NaT]>>),
     Frame(<<BaseRow, [BaseRow EXCEPT !.Country = None, !.Quantity = 5]>>)}

SchemaSheets ==
    {Project(Frame(rows), cols) :
        rows \in {<<>>, <<BaseRow>>, <<BaseRow, [BaseRow EXCEPT !.Quantity = 0]>>},
        cols \in {RequiredColumns \ {c} : c \in RequiredColumns}}

TopNs == (1..MaxTopN) \cup {DEFAULT_TOP_N}

GoldNames == <<"sales_by_country", "sales_by_time", "top_products", "customer_segments">>

Init ==
    /\ pc = "extract_data"
    /\ \/ /\ source \in {Frame(rows) : rows \in SeqsUpTo(CleaningRows, MaxRows)}
          /\ faults = {}
          /\ top_n = DEFAULT_TOP_N
       \/ /\ source \in {Frame(rows) : rows \in SeqsUpTo(SalesRows, MaxRows)}
          /\ faults = {}
          /\ top_n = DEFAULT_TOP_N
       \/ /\ source \in {Frame(rows) : rows \in SeqsUpTo(ProductRows, MaxRows)}
          /\ faults = {}
          /\ top_n \in TopNs
       \/ /\ source \in SchemaSheets
          /\ faults = {}
          /\ top_n = DEFAULT_TOP_N
       \/ /\ source \in FaultSheets
          /\ faults \in SUBSET FaultPoints
          /\ top_n = DEFAULT_TOP_N
    /\ df_raw = None
    /\ df_clean = None
    /\ gold_tables = <<>>
    /\ row_counts = <<>>
    /\ calls = <<>>
    /\ store = {}
    /\ result = None

-----------------------------------------------------------------------------
(* main *)

Raises(f) == f \in faults

Call(f) == calls' = Append(calls, f)

\* Lines 490-493.
ExtractData ==
    /\ pc = "extract_data"
    /\ Call("extract_data")
    /\ IF Raises("extract_data")
       THEN /\ df_raw' = None
            /\ result' = Some(FALSE)
            /\ pc' = "returned"
       ELSE /\ df_raw' = Some(source)
            /\ result' = result
            /\ pc' = "load_bronze"
    /\ UNCHANGED <<source, faults, top_n, df_clean, gold_tables, row_counts, store>>

\* Lines 129-146: the copy load_bronze converts for Parquet, each conversion
\* guarded by the presence of its column; CustomerID is float64 already.
df_to_save(df) ==
    [columns |-> df.columns,
     rows    |-> [i \in 1..Len(df.rows) |->
                    [c \in DOMAIN df.rows[i] |->
                        CASE c \in {"InvoiceNo", "StockCode"} -> AsTypeStr(df.rows[i][c])
                          [] c = "Description" ->
                                IF df.rows[i][c] = None THEN Some(<<>>) ELSE df.rows[i][c]
                          [] OTHER -> df.rows[i][c]]]]

\* Mutant of LoadBronze: the conversions made on df itself, without df.copy().
LoadBronze_InPlace ==
    /\ pc = "load_bronze"
    /\ Call("load_bronze")
    /\ df_raw' = Some(df_to_save(The(df_raw)))
    /\ store' = IF Raises("load_bronze") THEN store ELSE store \cup {"bronze/raw_data"}
    /\ pc' = "transform_silver"
    /\ UNCHANGED <<source, faults, top_n, df_clean, gold_tables, row_counts, result>>

\* Line 495: the copy is converted and written; df_raw is left as it is.
LoadBronze ==
    /\ pc = "load_bronze"
    /\ Call("load_bronze")
    /\ store' = IF Raises("load_bronze") THEN store ELSE store \cup {"bronze/raw_data"}
    /\ pc' = "transform_silver"
    /\ UNCHANGED <<source, faults, top_n, df_raw, df_clean, gold_tables, row_counts, result>>

\* Mutant of TransformSilver: main without the "if df_clean is None" return.
TransformSilver_NoShortCircuit ==
    /\ pc = "transform_silver"
    /\ Call("transform_silver")
    /\ df_clean' = transform_silver(The(df_raw))
    /\ row_counts' = silver_row_counts(The(df_raw))
    /\ pc' = "load_silver"
    /\ UNCHANGED <<source, faults, top_n, df_raw, gold_tables, store, result>>

\* Lines 498-501.
TransformSilver ==
    /\ pc = "transform_silver"
    /\ Call("transform_silver")
    /\ df_clean' = transform_silver(The(df_raw))
    /\ row_counts' = silver_row_counts(The(df_raw))
    /\ IF df_clean' = None
       THEN result' = Some(FALSE) /\ pc' = "returned"
       ELSE result' = result /\ pc' = "load_silver"
    /\ UNCHANGED <<source, faults, top_n, df_raw, gold_tables, store>>

\* Line 503.
LoadSilver ==
    /\ pc = "load_silver"
    /\ Call("load_silver")
    /\ store' = IF Raises("load_silver") THEN store ELSE store \cup {"silver/clean_data"}
    /\ pc' = "aggregate_sales_by_country"
    /\ UNCHANGED <<source, faults, top_n, df_raw, df_clean, gold_tables, row_counts, result>>

\* The entry an aggregator leaves in gold_tables: None from its except branch.
Entry(f, table) == IF Raises(f) THEN None ELSE Some(table)

\* Line 507.
AggregateSalesByCountry ==
    /\ pc = "aggregate_sales_by_country"
    /\ Call("aggregate_sales_by_country")
    /\ gold_tables' = gold_tables @@ ("sales_by_country" :>
            Entry("aggregate_sales_by_country", aggregate_sales_by_country(The(df_clean))))
    /\ pc' = "aggregate_sales_by_time"
    /\ UNCHANGED <<source, faults, top_n, df_raw, df_clean, row_counts, store, result>>

\* Line 508. The function writes YearMonth into df_clean (line 344); when it
\* raises, the exception comes before or after that assignment.
AggregateSalesByTime ==
    /\ pc = "aggregate_sales_by_time"
    /\ Call("aggregate_sales_by_time")
    /\ gold_tables' = gold_tables @@ ("sales_by_time" :>
            Entry("aggregate_sales_by_time", aggregate_sales_by_time(The(df_clean))))
    /\ \/ df_clean' = Some(WithYearMonth(The(df_clean)))
       \/ Raises("aggregate_sales_by_time") /\ df_clean' = df_clean
    /\ pc' = "aggregate_top_products"
    /\ UNCHANGED <<source, faults, top_n, df_raw, row_counts, store, result>>

\* Mutant of AggregateTopProducts: the aggregator without its try/except, so
\* that its exception reaches main's except branch (lines 525-527).
AggregateTopProducts_Propagating ==
    /\ pc = "aggregate_top_products"
    /\ Call("aggregate_top_products")
    /\ IF Raises("aggregate_top_products")
       THEN /\ gold_tables' = gold_tables
            /\ result' = Some(FALSE)
            /\ pc' = "returned"
       ELSE /\ gold_tables' = gold_tables @@ ("top_products" :>
                    Some(aggregate_top_products(The(df_clean), top_n)))
            /\ result' = result
            /\ pc' = "aggregate_customer_segments"
    /\ UNCHANGED <<source, faults, top_n, df_raw, df_clean, row_counts, store>>

\* Line 509.
AggregateTopProducts ==
    /\ pc = "aggregate_top_products"
    /\ Call("aggregate_top_products")
    /\ gold_tables' = gold_tables @@ ("top_products" :>
            Entry("aggregate_top_products", aggregate_top_products(The(df_clean), top_n)))
    /\ pc' = "aggregate_customer_segments"
    /\ UNCHANGED <<source, faults, top_n, df_raw, df_clean, row_counts, store, result>>

\* Line 510.
AggregateCustomerSegments ==
    /\ pc = "aggregate_customer_segments"
    /\ Call("aggregate_customer_segments")
    /\ gold_tables' = gold_tables @@ ("customer_segments" :>
            Entry("aggregate_customer_segments", aggregate_customer_segments(The(df_clean))))
    /\ pc' = "load_gold"
    /\ UNCHANGED <<source, faults, top_n, df_raw, df_clean, row_counts, store, result>>

\* The files load_gold has written once the first n entries are handled.
GoldFiles(tables, n) ==
    {GoldNames[i] : i \in {j \in 1..n : tables[GoldNames[j]] # None}}

\* Mutant of LoadGold: load_gold without its try/except, so that a failed
\* write reaches main's except branch (lines 525-527).
LoadGold_Propagating ==
    /\ pc = "load_gold"
    /\ Call("load_gold")
    /\ IF Raises("load_gold") /\ GoldFiles(gold_tables, 4) # {}
       THEN /\ \E i \in {j \in 1..4 : gold_tables[GoldNames[j]] # None} :
                  \E n \in {i - 1, i} : store' = store \cup GoldFiles(gold_tables, n)
            /\ result' = Some(FALSE)
       ELSE /\ store' = store \cup GoldFiles(gold_tables, 4)
            /\ result' = Some(TRUE)
    /\ pc' = "returned"
    /\ UNCHANGED <<source, faults, top_n, df_raw, df_clean, gold_tables, row_counts>>

\* Lines 513-523: the entries are written in order, the None ones skipped; a
\* write that raises ends the loop, with or without its own file on disk.
LoadGold ==
    /\ pc = "load_gold"
    /\ Call("load_gold")
    /\ IF Raises("load_gold") /\ GoldFiles(gold_tables, 4) # {}
       THEN \E i \in {j \in 1..4 : gold_tables[GoldNames[j]] # None} :
                \E n \in {i - 1, i} : store' = store \cup GoldFiles(gold_tables, n)
       ELSE store' = store \cup GoldFiles(gold_tables, 4)
    /\ result' = Some(TRUE)
    /\ pc' = "returned"
    /\ UNCHANGED <<source, faults, top_n, df_raw, df_clean, gold_tables, row_counts>>

Next ==
    \/ ExtractData
    \/ LoadBronze
    \/ TransformSilver
    \/ LoadSilver
    \/ AggregateSalesByCountry
    \/ AggregateSalesByTime
    \/ AggregateTopProducts
    \/ AggregateCustomerSegments
    \/ LoadGold

Spec == Init /\ [][Next]_vars

-----------------------------------------------------------------------------
(* The four aggregator calls of lines 507-510 in any order *)

\* Rows that differ in the grouping keys, one of them without a period.
OrderRows ==
    {BaseRow,
     [BaseRow EXCEPT !.CustomerID = Some(4), !.InvoiceDate = T2,
                     !.Country = Some(<<"F">>), !.InvoiceNo = Some(<<"2">>)],
     [BaseRow EXCEPT !.InvoiceDate = NaT, !.StockCode = Some(<<"B">>), !.Quantity = 5]}

InitAnyOrder ==
    /\ pc = "extract_data"
    /\ source \in {Frame(rows) : rows \in SeqsUpTo(OrderRows, MaxRows)}
    /\ faults \in {{}, {"aggregate_sales_by_time"}}
    /\ top_n = DEFAULT_TOP_N
    /\ df_raw = None
    /\ df_clean = None
    /\ gold_tables = <<>>
    /\ row_counts = <<>>
    /\ calls = <<>>
    /\ store = {}
    /\ result = None

\* main is in the dict literal of lines 506-511 and the entry is not there yet.
Pending(name) == pc = "aggregate_sales_by_country" /\ name \notin DOMAIN gold_tables

\* The literal is complete with its fourth entry; load_gold is next.
PcAfter(tables) ==
    IF DOMAIN tables = {GoldNames[i] : i \in 1..4} THEN "load_gold" ELSE pc

AnyOrderSalesByCountry ==
    /\ Pending("sales_by_country")
    /\ Call("aggregate_sales_by_country")
    /\ gold_tables' = gold_tables @@ ("sales_by_country" :>
            Entry("aggregate_sales_by_country", aggregate_sales_by_country(The(df_clean))))
    /\ pc' = PcAfter(gold_tables')
    /\ UNCHANGED <<source, faults, top_n, df_raw, df_clean, row_counts, store, result>>

\* aggregate_sales_by_time up to its assignment of line 344.
AnyOrderSalesByTimeAssign ==
    /\ Pending("sales_by_time")
    /\ \A i \in 1..Len(calls) : calls[i] # "aggregate_sales_by_time"
    /\ Call("aggregate_sales_by_time")
    /\ \/ df_clean' = Some(WithYearMonth(The(df_clean)))
       \/ Raises("aggregate_sales_by_time") /\ df_clean' = df_clean
    /\ UNCHANGED <<pc, source, faults, top_n, df_raw, gold_tables, row_counts, store, result>>

\* aggregate_sales_by_time from its groupby of line 346 on: it reads the
\* frame as it is by then.
AnyOrderSalesByTimeGroup ==
    /\ Pending("sales_by_time")
    /\ \E i \in 1..Len(calls) : calls[i] = "aggregate_sales_by_time"
    /\ gold_tables' = gold_tables @@ ("sales_by_time" :>
            Entry("aggregate_sales_by_time", sales_by_time_groupby(The(df_clean))))
    /\ pc' = PcAfter(gold_tables')
    /\ UNCHANGED <<source, faults, top_n, df_raw, df_clean, row_counts, calls, store, result>>

AnyOrderTopProducts ==
    /\ Pending("top_products")
    /\ Call("aggregate_top_products")
    /\ gold_tables' = gold_tables @@ ("top_products" :>
            Entry("aggregate_top_products", aggregate_top_products(The(df_clean), top_n)))
    /\ pc' = PcAfter(gold_tables')
    /\ UNCHANGED <<source, faults, top_n, df_raw, df_clean, row_counts, store, result>>

AnyOrderCustomerSegments ==
    /\ Pending("customer_segments")
    /\ Call("aggregate_customer_segments")
    /\ gold_tables' = gold_tables @@ ("customer_segments" :>
            Entry("aggregate_customer_segments", aggregate_customer_segments(The(df_clean))))
    /\ pc' = PcAfter(gold_tables')
    /\ UNCHANGED <<source, faults, top_n, df_raw, df_clean, row_counts, store, result>>

NextAnyOrder ==
    \/ ExtractData
    \/ LoadBronze
    \/ TransformSilver
    \/ LoadSilver
    \/ AnyOrderSalesByCountry
    \/ AnyOrderSalesByTimeAssign
    \/ AnyOrderSalesByTimeGroup
    \/ AnyOrderTopProducts
    \/ AnyOrderCustomerSegments
    \/ LoadGold

SpecAnyOrder == InitAnyOrder /\ [][NextAnyOrder]_vars

-----------------------------------------------------------------------------
(* Properties *)

Aggregators ==
    {"aggregate_sales_by_country", "aggregate_sales_by_time",
     "aggregate_top_products", "aggregate_customer_segments"}

AggregatorOf ==
    [sales_by_country  |-> "aggregate_sales_by_country",
     sales_by_time     |-> "aggregate_sales_by_time",
     top_products      |-> "aggregate_top_products",
     customer_segments |-> "aggregate_customer_segments"]

Called(f) == \E i \in 1..Len(calls) : calls[i] = f

\* transform_silver has returned a table (df_clean holds it from then on).
SilverReturned == df_clean # None

SilverRows == The(df_clean).rows

\* The sheet has the eight required columns.
FullSchema == RequiredColumns \subseteq source.columns

\* C1: every row of the validated table has Quantity > 0,
\* 0.01 <= UnitPrice <= 10000 and a non-null CustomerID.
C1_ValidatedRowsInRange ==
    SilverReturned =>
        \A i \in 1..Len(SilverRows) :
            /\ SilverRows[i].Quantity > 0
            /\ SilverRows[i].UnitPrice >= 1
            /\ SilverRows[i].UnitPrice <= 1000000
            /\ SilverRows[i].CustomerID # None

\* A sheet with a null customer, a non-positive quantity and an out-of-range
\* price has been cleaned into a table that still has a row.
C1_Witness ==
    /\ SilverReturned
    /\ FullSchema
    /\ Len(SilverRows) >= 1
    /\ \E i \in 1..Len(source.rows) :
          source.rows[i].CustomerID = None \/ source.rows[i].Quantity <= 0
    /\ \E i \in 1..Len(source.rows) :
          source.rows[i].UnitPrice < 1 \/ source.rows[i].UnitPrice > 1000000

\* C2: every row of the validated table has a valid InvoiceDate and
\* non-null Year, Month, DayOfWeek and Hour.
C2_ValidatedDatesValid ==
    SilverReturned =>
        \A i \in 1..Len(SilverRows) :
            /\ SilverRows[i].InvoiceDate # NaT
            /\ SilverRows[i].Year # None
            /\ SilverRows[i].Month # None
            /\ SilverRows[i].DayOfWeek # None
            /\ SilverRows[i].Hour # None

\* C3: on a sheet with the eight required columns transform_silver returns
\* a table, whatever the rows.
C3_FullSchemaNeverFails ==
    (Called("transform_silver") /\ FullSchema) => SilverReturned

\* C4: with a required column absent transform_silver returns None and
\* main returns False.
C4_MissingColumnFails ==
    (Called("transform_silver") /\ ~FullSchema) =>
        /\ df_clean = None
        /\ result = Some(FALSE)

\* transform_silver has failed on a sheet with rows whose only defect is
\* that it has no Description column.
C4_Witness ==
    /\ Called("transform_silver")
    /\ source.columns = RequiredColumns \ {"Description"}
    /\ Len(source.rows) >= 1
    /\ df_clean = None
    /\ result = Some(FALSE)

SegmentsEntry == gold_tables["customer_segments"]

HasEntry(name) == name \in DOMAIN gold_tables /\ gold_tables[name] # None

\* C5: the segments table has one row per customer of the validated table,
\* each with the label of its TotalSpent: <= 1000 Low, (1000, 5000] Medium,
\* > 5000 High.
C5_EveryCustomerLabelled ==
    HasEntry("customer_segments") =>
        LET t == The(SegmentsEntry) IN
        /\ \A i \in 1..Len(SilverRows) :
              Cardinality({j \in 1..Len(t) : Some(t[j].CustomerID) = SilverRows[i].CustomerID}) = 1
        /\ \A j \in 1..Len(t) :
              /\ t[j].Segment \in {Some("Low Value"), Some("Medium Value"), Some("High Value")}
              /\ t[j].TotalSpent <= 100000 => t[j].Segment = Some("Low Value")
              /\ (t[j].TotalSpent > 100000 /\ t[j].TotalSpent <= 500000)
                    => t[j].Segment = Some("Medium Value")
              /\ t[j].TotalSpent > 500000 => t[j].Segment = Some("High Value")

\* Two customers on either side of the first boundary: 1000.00 is Low and
\* 1000.01 is Medium.
C5_Witness ==
    /\ HasEntry("customer_segments")
    /\ \E j \in 1..Len(The(SegmentsEntry)) :
          /\ The(SegmentsEntry)[j].TotalSpent = 100000
          /\ The(SegmentsEntry)[j].Segment = Some("Low Value")
    /\ \E j \in 1..Len(The(SegmentsEntry)) :
          /\ The(SegmentsEntry)[j].TotalSpent = 100001
          /\ The(SegmentsEntry)[j].Segment = Some("Medium Value")

\* C6: once transform_silver has returned a table, main returns only after
\* all four aggregators have run; gold_tables then has exactly the four
\* keys, and an entry is None exactly when its own aggregator raised.
C6_FailureIsolated ==
    (SilverReturned /\ pc \in {"load_gold", "returned"}) =>
        /\ \A f \in Aggregators : Called(f)
        /\ DOMAIN gold_tables = DOMAIN AggregatorOf
        /\ \A name \in DOMAIN AggregatorOf :
              (gold_tables[name] = None) <=> Raises(AggregatorOf[name])

\* aggregate_top_products alone has failed and the other three entries
\* are tables.
C6_Witness ==
    /\ pc = "returned"
    /\ Raises("aggregate_top_products")
    /\ DOMAIN gold_tables = DOMAIN AggregatorOf
    /\ gold_tables["top_products"] = None
    /\ gold_tables["sales_by_country"] # None
    /\ gold_tables["sales_by_time"] # None
    /\ gold_tables["customer_segments"] # None

\* C7: nothing runs after a failed extract_data, nothing runs after a
\* failed transform_silver, main returns False in both cases, and an
\* aggregator runs only after transform_silver has returned a table.
C7_ShortCircuit ==
    /\ df_raw = None =>
          \A i \in 1..Len(calls) : calls[i] = "extract_data"
    /\ df_clean = None =>
          \A i \in 1..Len(calls) :
              calls[i] \in {"extract_data", "load_bronze", "transform_silver"}
    /\ (pc = "returned" /\ (df_raw = None \/ df_clean = None)) => result = Some(FALSE)
    /\ \A i \in 1..Len(calls) :
          calls[i] \in Aggregators =>
              /\ SilverReturned
              /\ \E j \in 1..(i - 1) : calls[j] = "transform_silver"
    /\ (df_raw = None \/ df_clean = None) =>
          store \subseteq {"bronze/raw_data"}

\* transform_silver has failed on an extracted sheet and main has returned
\* False after three calls.
C7_Witness ==
    /\ pc = "returned"
    /\ df_raw # None
    /\ df_clean = None
    /\ calls = <<"extract_data", "load_bronze", "transform_silver">>
    /\ result = Some(FALSE)

\* C8: every row of the validated table has TotalPrice = Quantity x
\* UnitPrice, with the Quantity and the UnitPrice of a row of the sheet.
C8_TotalPriceExact ==
    SilverReturned =>
        \A i \in 1..Len(SilverRows) :
            /\ SilverRows[i].TotalPrice = SilverRows[i].Quantity * SilverRows[i].UnitPrice
            /\ \E k \in 1..Len(source.rows) :
                  /\ source.rows[k].Quantity = SilverRows[i].Quantity
                  /\ source.rows[k].UnitPrice = SilverRows[i].UnitPrice

\* A validated table with a row of 5 units and a row priced 0.01, whose
\* description and customer were normalized.
C8_Witness ==
    /\ SilverReturned
    /\ \E i \in 1..Len(SilverRows) :
          SilverRows[i].Quantity = 5 /\ SilverRows[i].TotalPrice = 500000
    /\ \E i \in 1..Len(SilverRows) :
          /\ SilverRows[i].UnitPrice = 1
          /\ SilverRows[i].TotalPrice = 1
          /\ SilverRows[i].Description = Some(<<"Y">>)

NonIncreasing(s) == \A i \in 1..(Len(s) - 1) : s[i + 1] <= s[i]

\* C9: the row count never increases from one cleaning step to the next,
\* and the validated table has at most as many rows as the sheet.
C9_RowCountMonotone ==
    /\ NonIncreasing(row_counts)
    /\ SilverReturned =>
          /\ Len(row_counts) = 4
          /\ row_counts[1] = Len(source.rows)
          /\ Len(SilverRows) = row_counts[4]
          /\ Len(SilverRows) <= Len(source.rows)

\* Each of the three steps has removed a row.
C9_Witness ==
    /\ SilverReturned
    /\ Len(row_counts) = 4
    /\ row_counts[1] > row_counts[2]
    /\ row_counts[2] > row_counts[3]
    /\ row_counts[3] > row_counts[4]

Min(a, b) == IF a < b THEN a ELSE b

\* The distinct (StockCode, Description) pairs of the validated table.
ProductPairs ==
    {<<SilverRows[i].StockCode, SilverRows[i].Description>> : i \in 1..Len(SilverRows)}

\* The revenue of one such pair over the validated table.
PairRevenue(k) ==
    SumSeq(Column(Mask(SilverRows, {i \in 1..Len(SilverRows) :
            <<SilverRows[i].StockCode, SilverRows[i].Description>> = k}), "TotalPrice"))

\* C10: aggregate_top_products returns min(top_n, P) rows, P the number of
\* distinct (StockCode, Description) pairs of the validated table, sorted
\* by TotalRevenue descending, and no pair left out has a greater revenue
\* than a row returned.
C10_TopProducts ==
    HasEntry("top_products") =>
        LET t == The(gold_tables["top_products"]) IN
        /\ Len(t) = Min(top_n, Cardinality(ProductPairs))
        /\ \A i \in 1..(Len(t) - 1) : t[i].TotalRevenue >= t[i + 1].TotalRevenue
        /\ \A k \in ProductPairs :
              (\A i \in 1..Len(t) : <<Some(t[i].StockCode), Some(t[i].Description)>> # k)
                  => \A i \in 1..Len(t) : t[i].TotalRevenue >= PairRevenue(k)

\* C10, on the validated tables without a null Description: there the
\* count, the order and the truncation are as stated.
C10_TopProductsOfDescribedRows ==
    (HasEntry("top_products")
        /\ \A i \in 1..Len(SilverRows) : SilverRows[i].Description # None)
            => C10_TopProducts

\* The rows of the validated table whose Country is c.
RowsOfCountry(c) == {i \in 1..Len(SilverRows) : SilverRows[i].Country = Some(c)}

\* C11: aggregate_sales_by_country returns one row per distinct Country of
\* the validated table, with the sums of TotalPrice and Quantity and the
\* numbers of distinct InvoiceNo and CustomerID of that country's rows;
\* TotalOrders >= 1, AvgOrderValue = TotalRevenue / TotalOrders, and the
\* rows are sorted by TotalRevenue descending, none cut off.
C11_SalesByCountry ==
    HasEntry("sales_by_country") =>
        LET t == The(gold_tables["sales_by_country"]) IN
        /\ \A i \in 1..Len(SilverRows) :
              SilverRows[i].Country # None =>
                  Cardinality({j \in 1..Len(t) : Some(t[j].Country) = SilverRows[i].Country}) = 1
        /\ \A j \in 1..Len(t) :
              LET g == RowsOfCountry(t[j].Country) IN
              /\ g # {}
              /\ t[j].TotalRevenue = SumSeq(Column(Mask(SilverRows, g), "TotalPrice"))
              /\ t[j].TotalQuantity = SumSeq(Column(Mask(SilverRows, g), "Quantity"))
              /\ t[j].TotalOrders = Cardinality({SilverRows[i].InvoiceNo : i \in g})
              /\ t[j].UniqueCustomers = Cardinality({SilverRows[i].CustomerID : i \in g})
              /\ t[j].TotalOrders >= 1
              /\ t[j].AvgOrderValue = Ratio(t[j].TotalRevenue, t[j].TotalOrders)
        /\ \A j \in 1..(Len(t) - 1) : t[j].TotalRevenue >= t[j + 1].TotalRevenue

\* Two countries, the one with the greater revenue sorted first against the
\* order of the keys, and its two rows belonging to one invoice.
C11_Witness ==
    /\ HasEntry("sales_by_country")
    /\ Len(The(gold_tables["sales_by_country"])) = 2
    /\ The(gold_tables["sales_by_country"])[1].Country = <<"U">>
    /\ The(gold_tables["sales_by_country"])[1].TotalOrders = 1
    /\ The(gold_tables["sales_by_country"])[1].TotalQuantity = 2
    /\ The(gold_tables["sales_by_country"])[1].TotalRevenue
          > The(gold_tables["sales_by_country"])[2].TotalRevenue

\* C12: the duplicate-removal step keeps exactly one copy of each distinct
\* full row of the raw table, and nothing else.
C12_OneCopyOfEachRow ==
    (Called("transform_silver") /\ Len(row_counts) = 4) =>
        LET raw == The(df_raw).rows
            d == drop_duplicates(raw)
        IN  /\ row_counts[2] = Len(d)
            /\ \A i \in 1..Len(raw) :
                  Cardinality({j \in 1..Len(d) : d[j] = raw[i]}) = 1
            /\ \A j \in 1..Len(d) : \E i \in 1..Len(raw) : raw[i] = d[j]
            /\ Len(d) = Cardinality({raw[i] : i \in 1..Len(raw)})

\* A raw table of three rows, one of them a second copy, has been through
\* the step: two rows are left.
C12_Witness ==
    /\ Called("transform_silver")
    /\ Len(row_counts) = 4
    /\ row_counts[1] = 3
    /\ row_counts[2] = 2
    /\ Cardinality({source.rows[i] : i \in 1..Len(source.rows)}) = 2

\* C13: the validated table is read-only once transform_silver has returned
\* it: whichever aggregators have run, df_clean is the table as returned,
\* with the same columns and rows, and no YearMonth in it.
C13_ValidatedTableReadOnly ==
    SilverReturned =>
        /\ df_clean = transform_silver(source)
        /\ "YearMonth" \notin The(df_clean).columns

\* The result of the aggregator of the entry name when it alone runs on the
\* table as transform_silver returns it.
RunAlone(name) ==
    LET df == The(transform_silver(source)) IN
    CASE name = "sales_by_country"  -> Entry(AggregatorOf[name], aggregate_sales_by_country(df))
      [] name = "sales_by_time"     -> Entry(AggregatorOf[name], aggregate_sales_by_time(df))
      [] name = "top_products"      -> Entry(AggregatorOf[name], aggregate_top_products(df, top_n))
      [] name = "customer_segments" -> Entry(AggregatorOf[name], aggregate_customer_segments(df))

\* The position of the call of f in calls (0 when it has not been called).
CallIndex(f) ==
    IF Called(f) THEN CHOOSE i \in 1..Len(calls) : calls[i] = f ELSE 0

\* C14: in whatever order the four aggregators run, and wherever the others
\* fall between the two steps of aggregate_sales_by_time, every entry of
\* gold_tables is what its aggregator returns when run alone on the table
\* returned by transform_silver.
C14_OrderIndependent ==
    \A name \in DOMAIN gold_tables : gold_tables[name] = RunAlone(name)

\* All four have returned a table, customer_segments and top_products
\* first, sales_by_country after the YearMonth assignment.
C14_Witness ==
    /\ pc = "returned"
    /\ \A name \in DOMAIN AggregatorOf : HasEntry(name)
    /\ Len(The(gold_tables["sales_by_time"])) >= 2
    /\ CallIndex("aggregate_customer_segments") < CallIndex("aggregate_top_products")
    /\ CallIndex("aggregate_top_products") < CallIndex("aggregate_sales_by_time")
    /\ CallIndex("aggregate_sales_by_time") < CallIndex("aggregate_sales_by_country")

\* The metric that reads each column validate_data_quality indexes.
MetricOfColumn ==
    [InvoiceNo   |-> "missing_invoice",
     CustomerID  |-> "missing_customer",
     Quantity    |-> "negative_quantity",
     UnitPrice   |-> "zero_price",
     InvoiceDate |-> "invalid_dates"]

\* C15: validate_data_quality never fails: on every raw table it returns a
\* report with the seven metrics, and the metric of a column that is absent
\* equals the row count.
C15_ValidatorNeverFails ==
    Called("transform_silver") =>
        LET report == validate_data_quality(The(df_raw)) IN
        /\ report # None
        /\ DOMAIN The(report) =
              {"total_rows", "duplicates", "missing_invoice", "missing_customer",
               "negative_quantity", "zero_price", "invalid_dates"}
        /\ \A c \in DOMAIN MetricOfColumn :
              c \notin The(df_raw).columns =>
                  The(report)[MetricOfColumn[c]] = Len(The(df_raw).rows)

\* C16: the raw table is never changed: whatever of load_bronze,
\* validate_data_quality and transform_silver has run, and whether it
\* succeeded or failed, df_raw is the table as extracted.
C16_RawTableImmutable ==
    df_raw # None => df_raw = Some(source)

\* load_bronze has failed and transform_silver has run on a sheet with a
\* null Description, which load_bronze converts in its copy.
C16_Witness ==
    /\ Called("load_bronze")
    /\ Called("transform_silver")
    /\ Raises("load_bronze")
    /\ \E i \in 1..Len(source.rows) : source.rows[i].Description = None
    /\ df_to_save(source) # source
    /\ df_raw = Some(source)

\* The gold files on disk.
GoldStore == store \cap {GoldNames[i] : i \in 1..4}

\* C17: when extract_data and transform_silver have both returned a table,
\* main returns True, whichever aggregators returned None and whichever of
\* load_bronze, load_silver and load_gold failed to write; load_gold writes
\* files for non-None entries only, and for all of them when no write fails.
C17_SuccessDespiteFailures ==
    /\ (pc = "returned" /\ df_raw # None /\ df_clean # None) =>
          /\ result = Some(TRUE)
          /\ Called("load_gold")
          /\ ~Raises("load_gold") => GoldStore = {name \in DOMAIN gold_tables : HasEntry(name)}
    /\ GoldStore \subseteq {name \in DOMAIN gold_tables : HasEntry(name)}
    /\ GoldStore # {} => Called("load_gold")

\* main has returned True although two aggregators returned None and all
\* three writers failed, load_gold after its first file.
C17_Witness ==
    /\ pc = "returned"
    /\ result = Some(TRUE)
    /\ {"load_bronze", "load_silver", "load_gold",
        "aggregate_sales_by_time", "aggregate_customer_segments"} \subseteq faults
    /\ gold_tables["sales_by_time"] = None
    /\ gold_tables["customer_segments"] = None
    /\ HasEntry("top_products")
    /\ store = {"sales_by_country"}

\* The timestamps of the rows of customer k in the validated table.
PurchasesOf(k) ==
    {SilverRows[i].InvoiceDate : i \in {j \in 1..Len(SilverRows) : SilverRows[j].CustomerID = Some(k)}}

\* C18: the segments table has one row per distinct CustomerID of the
\* validated table; for every customer FirstPurchase <= LastPurchase,
\* CustomerLifetime is the number of whole days between the two and >= 0,
\* it is 0 when all the customer's rows carry the same timestamp,
\* TotalOrders >= 1 and AvgOrderValue = TotalSpent / TotalOrders.
C18_CustomerSegments ==
    HasEntry("customer_segments") =>
        LET t == The(SegmentsEntry) IN
        /\ \A i \in 1..Len(SilverRows) :
              Cardinality({j \in 1..Len(t) : Some(t[j].CustomerID) = SilverRows[i].CustomerID}) = 1
        /\ \A j \in 1..Len(t) :
              /\ PurchasesOf(t[j].CustomerID) # {}
              /\ t[j].FirstPurchase # NaT
              /\ t[j].LastPurchase # NaT
              /\ HoursOf(t[j].FirstPurchase) <= HoursOf(t[j].LastPurchase)
              /\ t[j].CustomerLifetime # None
              /\ The(t[j].CustomerLifetime) >= 0
              /\ The(t[j].CustomerLifetime) * 24
                    <= HoursOf(t[j].LastPurchase) - HoursOf(t[j].FirstPurchase)
              /\ HoursOf(t[j].LastPurchase) - HoursOf(t[j].FirstPurchase)
                    < (The(t[j].CustomerLifetime) + 1) * 24
              /\ Cardinality(PurchasesOf(t[j].CustomerID)) = 1
                    => t[j].CustomerLifetime = Some(0)
              /\ t[j].TotalOrders >= 1
              /\ t[j].AvgOrderValue = Ratio(t[j].TotalSpent, t[j].TotalOrders)

\* C18, on the validated tables whose rows all have a timestamp: there the
\* dates, the lifetime and the quotient are as stated.
C18_CustomerSegmentsOfDatedRows ==
    (HasEntry("customer_segments")
        /\ \A i \in 1..Len(SilverRows) : SilverRows[i].InvoiceDate # NaT)
            => C18_CustomerSegments

\* The first occurrences of the rows of the sheet that have a customer,
\* Quantity > 0 and 0.01 <= UnitPrice <= 10000.
QualifyingRows ==
    {i \in 1..Len(source.rows) :
        /\ source.rows[i].CustomerID # None
        /\ source.rows[i].Quantity > 0
        /\ source.rows[i].UnitPrice >= 1
        /\ source.rows[i].UnitPrice <= 1000000
        /\ \A j \in 1..(i - 1) : source.rows[j] # source.rows[i]}

\* The k-th of them, in the order of the sheet.
QualifyingRow(k) ==
    source.rows[CHOOSE i \in QualifyingRows :
                    Cardinality({j \in QualifyingRows : j < i}) = k - 1]

\* C19: the quantity/price filter is complete as well as sound: it leaves
\* as many rows as the sheet has distinct rows with a customer, Quantity > 0
\* and 0.01 <= UnitPrice <= 10000, and each of these has its one row in the
\* validated table, with its quantity, price and date and its normalized
\* cells.
C19_FilterComplete ==
    /\ Len(row_counts) = 4 => row_counts[4] = Cardinality(QualifyingRows)
    /\ SilverReturned =>
          /\ Len(SilverRows) = Cardinality(QualifyingRows)
          /\ \A k \in 1..Len(SilverRows) :
                LET raw == QualifyingRow(k)
                    normalized == Normalize(Derive(raw))
                IN  /\ SilverRows[k].Quantity = raw.Quantity
                    /\ SilverRows[k].UnitPrice = raw.UnitPrice
                    /\ SilverRows[k].InvoiceDate = raw.InvoiceDate
                    /\ \A c \in RequiredColumns : SilverRows[k][c] = normalized[c]

\* A sheet with the prices 0.01 and 10000.00 and a quantity 0: the two
\* boundary prices are in the validated table, the third row is not.
C19_Witness ==
    /\ SilverReturned
    /\ Len(source.rows) = 3
    /\ \E i \in 1..3 : source.rows[i].Quantity = 0
    /\ Len(SilverRows) = 2
    /\ \E k \in 1..2 : SilverRows[k].UnitPrice = 1
    /\ \E k \in 1..2 : SilverRows[k].UnitPrice = 1000000

\* C20: the validated table has no two rows equal in every column; two raw
\* rows that differ only in what the normalization removes do not both
\* survive as identical rows.
C20_NoIdenticalRows ==
    SilverReturned =>
        \A i \in 1..Len(SilverRows) :
            \A j \in 1..Len(SilverRows) : SilverRows[i] = SilverRows[j] => i = j

\* C21: grouping in aggregate_top_products loses no row: when top_n is at
\* least the number of (StockCode, Description) pairs, every row of the
\* validated table is counted in exactly one returned row, also a row whose
\* Description is null, so TotalRevenue sums to the TotalPrice of the table
\* and TotalQuantitySold to its Quantity.
C21_GroupingLosesNoRow ==
    (HasEntry("top_products") /\ top_n >= Cardinality(ProductPairs)) =>
        LET t == The(gold_tables["top_products"]) IN
        /\ \A i \in 1..Len(SilverRows) :
              Cardinality({j \in 1..Len(t) :
                  /\ Some(t[j].StockCode) = SilverRows[i].StockCode
                  /\ Some(t[j].Description) = SilverRows[i].Description}) = 1
        /\ SumSeq(Column(t, "TotalRevenue")) = SumSeq(Column(SilverRows, "TotalPrice"))
        /\ SumSeq(Column(t, "TotalQuantitySold")) = SumSeq(Column(SilverRows, "Quantity"))

\* C21, on the validated tables without a null Description: there no row
\* is lost and the two sums agree.
C21_DescribedRowsNotLost ==
    (HasEntry("top_products")
        /\ \A i \in 1..Len(SilverRows) : SilverRows[i].Description # None)
            => C21_GroupingLosesNoRow

====
